---- MODULE Spec2Model ----
\* Model of the tag / VM registry of tag_api (models.py, views.py).
\* A string is a sequence of one-character strings, so that splitting,
\* stripping, case folding and regex matching are computed, not assumed.
EXTENDS Integers, Sequences, FiniteSets, TLC

\* ---------------------------------------------------------------- bounds
\* At most MaxTags rows in the tags table.
MaxTags == 2

\* ---------------------------------------------------------------- values
\* Python None / SQL NULL / an absent request parameter.
None == <<"None">>

\* Rows of the user table. No view creates or deletes users.
UserIds == {1, 2}

\* The reserved admin id, compared as a query-string value.
AdminId == <<"1">>

\* ---------------------------------------------------------------- inputs
NameE == <<"e">>
NameT == <<"t">>
ScopePQ == <<"p", "q">>
Empty == <<>>

\* (tag_name, scope, user_id) of POST /tags
CreateTagInputs ==
    {<<NameE, ScopePQ, 2>>, <<NameE, Empty, 2>>, <<NameE, None, 1>>,
     <<Empty, ScopePQ, 2>>, <<NameE, ScopePQ, 3>>}

\* (tag_id, user_id) of DELETE /tags, user_id as the query string carries it
DeleteTagInputs ==
    ((1 .. MaxTags) \X {<<"1">>, <<"2">>, <<"3">>}) \cup {<<0, <<"1">>>>, <<1, Empty>>}

\* (action, tag_name, vm_ids) of POST /assign_unassign_tags
AssignInputs ==
    ({"assign", "unassign"} \X {NameE, NameT} \X {{1}, {1, 2}})
    \cup {<<"attach", NameE, {1}>>}

\* "name:scope" specs of POST /vms
SpecEPQ == <<"e", ":", "p", "q">>
SpecTP == <<"t", ":", "p">>
SpecENoScope == <<"e", ":">>
SpecNoColon == <<"e">>
SpecNoName == <<":", "p">>
SpecTwoColons == <<"e", ":", "p", ":", "q">>

\* (tags, user_id) of POST /vms
TagSpecInputs ==
    {<<<<>>, 1>>, <<<<SpecEPQ>>, 1>>, <<<<SpecEPQ, SpecTP>>, 1>>,
     <<<<SpecENoScope>>, 1>>, <<<<SpecTP, SpecTP>>, 1>>, <<<<SpecNoColon>>, 1>>,
     <<<<SpecTP, SpecTwoColons>>, 1>>, <<<<SpecTP, SpecNoName>>, 1>>,
     <<<<SpecEPQ>>, 3>>}
VmNameInputs == {<<"a">>, <<"b">>}

\* (vm_id, tag_name list, scopes list) of GET /vms
NameFilterInputs == {<<>>, <<<<"E">>>>, <<NameT, <<" ", "e">>>>}
ScopeFilterInputs == {<<>>, <<<<"^", "p", "$">>>>, <<<<"p">>, <<"q">>>>}
ListVMsInputs ==
    ({0} \X NameFilterInputs \X ScopeFilterInputs) \cup {<<1, <<>>, <<>>>>}

VmIdInputs == {1}

\* ---------------------------------------------------------------- state
VARIABLES
    tags,       \* table tags: set of [tag_id, tag_name, scope, user_id]
    vms,        \* table vms: set of [vm_id, vm_name]
    vm_tags,    \* table vms_tags (VM.tags): <<vm_id, tag_id>> -> number of rows
    req,        \* the request last handled
    resp,       \* the JSON response to it
    calls       \* per concurrent caller: its request between the lookup and
                \* the INSERT of TagsModel.save, and how it ended

vars == <<tags, vms, vm_tags, req, resp, calls>>

\* ---------------------------------------------------------------- helpers
\* Smallest id not used so far in a table (stands for a fresh uuid4 key).
FreshId(ids) == CHOOSE i \in 1 .. (Cardinality(ids) + 1) : i \notin ids

TagIds(T) == {t.tag_id : t \in T}
VmIds(V) == {v.vm_id : v \in V}

\* Number of rows of the through table for a (vm, tag) pair.
Rows(A, v, t) == IF <<v, t>> \in DOMAIN A THEN A[<<v, t>>] ELSE 0

\* The id parameter of a request that carries none (None, 'None' or '').
NoId == 0

\* ---------------------------------------------------------------- strings
\* str.lower on the alphabet in use (iexact folds case).
LowerChar(c) ==
    CASE c = "E" -> "e"
      [] c = "T" -> "t"
      [] OTHER -> c

Lower(s) == [i \in 1 .. Len(s) |-> LowerChar(s[i])]

\* str.strip(): drop leading and trailing blanks.
RECURSIVE LStrip(_)
LStrip(s) == IF s # <<>> /\ Head(s) = " " THEN LStrip(Tail(s)) ELSE s

RECURSIVE RStrip(_)
RStrip(s) ==
    IF s # <<>> /\ s[Len(s)] = " " THEN RStrip(SubSeq(s, 1, Len(s) - 1)) ELSE s

Strip(s) == RStrip(LStrip(s))

\* str.split(':'): the parts between the colons, all of them.
RECURSIVE Split(_)
Split(s) ==
    IF \E i \in 1 .. Len(s) : s[i] = ":"
    THEN LET i == CHOOSE k \in 1 .. Len(s) :
                      s[k] = ":" /\ \A j \in 1 .. (k - 1) : s[j] # ":"
         IN  <<SubSeq(s, 1, i - 1)>> \o Split(SubSeq(s, i + 1, Len(s)))
    ELSE <<s>>

\* scope__regex: a regex search of pattern in value, for patterns made of an
\* optional ^, literal characters and an optional $. NULL matches nothing.
RegexSearch(pattern, value) ==
    IF value = None THEN FALSE
    ELSE LET atStart == pattern # <<>> /\ Head(pattern) = "^"
             p1 == IF atStart THEN Tail(pattern) ELSE pattern
             atEnd == p1 # <<>> /\ p1[Len(p1)] = "$"
             lit == IF atEnd THEN SubSeq(p1, 1, Len(p1) - 1) ELSE p1
         IN  \E i \in 1 .. (Len(value) - Len(lit) + 1) :
                 /\ SubSeq(value, i, i + Len(lit) - 1) = lit
                 /\ atStart => i = 1
                 /\ atEnd => i + Len(lit) - 1 = Len(value)

\* int(user_id) as the ORM does it for an integer column.
ToInt(s) ==
    CASE s = <<"1">> -> 1
      [] s = <<"2">> -> 2
      [] s = <<"3">> -> 3
      [] OTHER -> 0

\* ---------------------------------------------------------------- TagsModel
\* A lookup that matches on tag_name alone.
TagsFilterByNameOnly(T, tag_name, scope) == {t \in T : t.tag_name = tag_name}

\* TagsModel.objects.filter(tag_name=.., scope=..): scope=None is IS NULL,
\* scope='' is the comparison with the empty string.
TagsFilter(T, tag_name, scope) ==
    {t \in T : t.tag_name = tag_name /\ t.scope = scope}

\* The INSERT of super().save(): unique_together (tag_name, scope) is a
\* UNIQUE constraint, which SQL does not apply to rows whose scope is NULL.
DbInsertTag(T, row) ==
    IF \E t \in T : /\ t.tag_name = row.tag_name
                    /\ t.scope = row.scope
                    /\ row.scope # None
    THEN [err |-> "IntegrityError", tags |-> T]
    ELSE [err |-> "", tags |-> T \cup {row}]

\* TagsModel.save without its lookup for an existing (tag_name, scope).
SaveNoExistsCheck(T, tag_name, scope, user_id) ==
    IF tag_name = None \/ tag_name = <<>>
    THEN [err |-> "tag_name is required and cannot be empty.", tags |-> T]
    ELSE DbInsertTag(T, [tag_id |-> FreshId(TagIds(T)), tag_name |-> tag_name,
                         scope |-> (IF scope = <<>> THEN None ELSE scope),
                         user_id |-> user_id])

\* TagsModel.save; err is the ValidationError message, "IntegrityError" or "".
Save(T, tag_name, scope, user_id) ==
    IF tag_name = None \/ tag_name = <<>>
    THEN [err |-> "tag_name is required and cannot be empty.", tags |-> T]
    ELSE LET s == IF scope = <<>> THEN None ELSE scope
         IN  IF TagsFilter(T, tag_name, s) # {}
             THEN [err |-> "This tag already exists.", tags |-> T]
             ELSE DbInsertTag(T, [tag_id |-> FreshId(TagIds(T)), tag_name |-> tag_name,
                                  scope |-> s, user_id |-> user_id])

\* ---------------------------------------------------------------- Tags
\* Tags.post
CreateTag(tag_name, scope, user_id) ==
    /\ UNCHANGED calls
    /\ req' = [op |-> "createTag", tag_name |-> tag_name, scope |-> scope,
               user_id |-> user_id]
    /\ UNCHANGED <<vms, vm_tags>>
    /\ IF user_id \notin UserIds
       THEN \* get_object_or_404 raises Http404, which no except clause catches
            /\ resp' = [status |-> "error", error_code |-> 404, message |-> "Not found."]
            /\ UNCHANGED tags
       ELSE LET r == Save(tags, tag_name, IF scope = <<>> THEN None ELSE scope, user_id)
            IN  /\ Cardinality(r.tags) <= MaxTags
                /\ tags' = r.tags
                /\ resp' =
                     CASE r.err = "" ->
                            [status |-> "success", error_code |-> 0,
                             message |-> "Tag Added successfully"]
                       [] r.err = "IntegrityError" ->
                            [status |-> "error", error_code |-> 102,
                             message |-> "This Tag Already exist"]
                       [] OTHER ->
                            [status |-> "error", error_code |-> 103,
                             message |-> r.err]

\* An is_assigned that finds no through row.
IsAssignedNever(T, A, tag_id) == FALSE

\* is_assigned of Tags.delete: filter(tag_id=tag_id, vms__isnull=False).exists()
IsAssigned(T, A, tag_id) ==
    \E t \in T : t.tag_id = tag_id /\ \E p \in DOMAIN A : p[2] = tag_id /\ A[p] > 0

\* An is_exist that does not compare the owner.
OwnedCountAnyUser(T, tag_id, user_id) ==
    Cardinality({t \in T : t.tag_id = tag_id})

\* is_exist of Tags.delete: filter(tag_id=tag_id, user_id__user_id=user_id).count()
OwnedCount(T, tag_id, user_id) ==
    Cardinality({t \in T : t.tag_id = tag_id /\ t.user_id = ToInt(user_id)})

\* Tags.delete
DeleteTag(tag_id, user_id) ==
    /\ UNCHANGED calls
    /\ req' = [op |-> "deleteTag", tag_id |-> tag_id, user_id |-> user_id]
    /\ UNCHANGED vms
    /\ IF tag_id = NoId
       THEN /\ resp' = [status |-> "error", error_code |-> 100,
                        message |-> "Tag id is required"]
            /\ UNCHANGED <<tags, vm_tags>>
       ELSE IF user_id = None \/ user_id = <<>>
       THEN /\ resp' = [status |-> "error", error_code |-> 400,
                        message |-> "User id is required"]
            /\ UNCHANGED <<tags, vm_tags>>
       ELSE IF IsAssigned(tags, vm_tags, tag_id)
       THEN /\ resp' = [status |-> "error", error_code |-> 101,
                        message |-> "Tag is assigned to VMs. Unassign it before deleting."]
            /\ UNCHANGED <<tags, vm_tags>>
       ELSE LET is_admin == user_id = AdminId
                is_exist == OwnedCount(tags, tag_id, user_id)
            IN  IF is_admin \/ is_exist > 0
                THEN \* QuerySet.delete() also deletes the through rows of the tag
                     /\ tags' = {t \in tags : t.tag_id # tag_id}
                     /\ vm_tags' = [p \in {q \in DOMAIN vm_tags : q[2] # tag_id}
                                    |-> vm_tags[p]]
                     /\ resp' = [status |-> "success", error_code |-> 0,
                                 message |-> "Tag deleted successfully."]
                ELSE /\ resp' = [status |-> "error", error_code |-> 100,
                                 message |-> "Invalid Request."]
                     /\ UNCHANGED <<tags, vm_tags>>

\* ---------------------------------------------------------------- VM.tags
\* RelatedManager.add: insert a through row for each pair that has none.
M2MAdd(A, pairs) ==
    [p \in DOMAIN A \cup pairs |-> IF p \in DOMAIN A THEN A[p] ELSE 1]

\* RelatedManager.remove: delete the through rows of the pairs.
M2MRemove(A, pairs) == [p \in DOMAIN A \ pairs |-> A[p]]

\* ---------------------------------------------------------------- AssignUnassignTags
\* A lookup by name that raises nothing when no tag has the name and goes
\* on with the key it was last given.
GetTagByNameNoRaise(T, tag_name) ==
    LET found == {t \in T : t.tag_name = tag_name}
    IN  CASE found = {} -> [err |-> "", tag_id |-> 1]
          [] Cardinality(found) > 1 ->
               [err |-> "error: get() returned more than one TagsModel", tag_id |-> NoId]
          [] OTHER ->
               [err |-> "", tag_id |-> (CHOOSE t \in found : TRUE).tag_id]

\* A lookup by name that takes the first of several tags with the name
\* (filter(tag_name=..).first()) instead of raising.
GetTagByNameFirst(T, tag_name) ==
    LET found == {t \in T : t.tag_name = tag_name}
    IN  IF found = {}
        THEN [err |-> "error: No TagsModel matches the given query.", tag_id |-> NoId]
        ELSE [err |-> "",
              tag_id |-> (CHOOSE t \in found : \A o \in found : t.tag_id <= o.tag_id).tag_id]

\* get_object_or_404(TagsModel, tag_name=tag_name) in AssignUnassignTags.post
GetTagByName(T, tag_name) ==
    LET found == {t \in T : t.tag_name = tag_name}
    IN  CASE found = {} ->
               [err |-> "error: No TagsModel matches the given query.", tag_id |-> NoId]
          [] Cardinality(found) > 1 ->
               [err |-> "error: get() returned more than one TagsModel", tag_id |-> NoId]
          [] OTHER ->
               [err |-> "", tag_id |-> (CHOOSE t \in found : TRUE).tag_id]

\* AssignUnassignTags.post
AssignUnassign(action, tag_name, vm_ids) ==
    /\ UNCHANGED calls
    /\ req' = [op |-> action, tag_name |-> tag_name, vm_ids |-> vm_ids]
    /\ UNCHANGED <<tags, vms>>
    /\ IF action \notin {"assign", "unassign"}
       THEN /\ resp' = [status |-> "error", error_code |-> 108,
                        message |-> "Invalid action"]
            /\ UNCHANGED vm_tags
       ELSE LET g == GetTagByName(tags, tag_name)
                pairs == {<<v, g.tag_id>> : v \in vm_ids}
            IN  IF g.err # ""
                THEN \* Http404 and MultipleObjectsReturned end in "except Exception"
                     /\ resp' = [status |-> "error", error_code |-> 101,
                                 message |-> g.err]
                     /\ UNCHANGED vm_tags
                ELSE IF action = "assign"
                THEN IF vm_ids \subseteq VmIds(vms)
                     THEN /\ vm_tags' = M2MAdd(vm_tags, pairs)
                          /\ resp' = [status |-> "success", error_code |-> 0,
                                      message |-> "Tag Assigned to Objects successfully"]
                     ELSE \* the foreign key to vms fails and add() is rolled back
                          /\ resp' = [status |-> "error", error_code |-> 101,
                                      message |-> "error: FOREIGN KEY constraint failed"]
                          /\ UNCHANGED vm_tags
                ELSE /\ vm_tags' = M2MRemove(vm_tags, pairs)
                     /\ resp' = [status |-> "success", error_code |-> 0,
                                 message |-> "Tag Unassigned from Objects successfully"]

\* ---------------------------------------------------------------- VMs
\* The loop over the tag specs in VMs.post, with the tables as they stand
\* when it ends or raises.
RECURSIVE AttachTags(_, _, _, _, _)
AttachTags(specs, T, A, vm_id, user_id) ==
    IF specs = <<>>
    THEN [err |-> "", tags |-> T, vm_tags |-> A]
    ELSE LET parts == Split(Head(specs))
         IN  IF Len(parts) # 2
             THEN [err |-> "ValueError", tags |-> T, vm_tags |-> A]
             ELSE LET found == TagsFilter(T, parts[1], parts[2])
                  IN  IF found # {}
                      THEN LET first == CHOOSE t \in found :
                                            \A o \in found : t.tag_id <= o.tag_id
                           IN  AttachTags(Tail(specs), T,
                                          M2MAdd(A, {<<vm_id, first.tag_id>>}),
                                          vm_id, user_id)
                      ELSE LET r == Save(T, parts[1], parts[2], user_id)
                           IN  IF r.err # ""
                               THEN [err |-> r.err, tags |-> T, vm_tags |-> A]
                               ELSE AttachTags(Tail(specs), r.tags,
                                               M2MAdd(A, {<<vm_id, t.tag_id>> : t \in r.tags \ T}),
                                               vm_id, user_id)

\* VMs.post
CreateVM(vm_name, tag_specs, user_id) ==
    /\ UNCHANGED calls
    /\ req' = [op |-> "createVM", vm_name |-> vm_name, tags |-> tag_specs,
               user_id |-> user_id]
    /\ IF \E v \in vms : v.vm_name = vm_name
       THEN /\ resp' = [status |-> "error", error_code |-> 102,
                        message |-> "This VM Already exists."]
            /\ UNCHANGED <<tags, vms, vm_tags>>
       ELSE IF vm_name = None
       THEN \* vm_name is NOT NULL: VM.objects.create raises IntegrityError
            /\ resp' = [status |-> "error", error_code |-> 101,
                        message |-> "Error: NOT NULL constraint failed"]
            /\ UNCHANGED <<tags, vms, vm_tags>>
       ELSE LET vm_instance == [vm_id |-> FreshId(VmIds(vms)), vm_name |-> vm_name]
                created == vms \cup {vm_instance}
            IN  IF tag_specs = <<>>
                THEN /\ vms' = created
                     /\ resp' = [status |-> "success", error_code |-> 0,
                                 message |-> "VM added successfully."]
                     /\ UNCHANGED <<tags, vm_tags>>
                ELSE IF user_id \notin UserIds
                THEN \* Http404 ends in "except Exception": the VM row stays
                     /\ vms' = created
                     /\ resp' = [status |-> "error", error_code |-> 101,
                                 message |-> "Error: No UserProfile matches the given query."]
                     /\ UNCHANGED <<tags, vm_tags>>
                ELSE LET r == AttachTags(tag_specs, tags, vm_tags,
                                         vm_instance.vm_id, user_id)
                     IN  /\ Cardinality(r.tags) <= MaxTags
                         /\ tags' = r.tags
                         /\ CASE r.err = "" ->
                                   /\ vms' = created
                                   /\ vm_tags' = r.vm_tags
                                   /\ resp' = [status |-> "success", error_code |-> 0,
                                               message |-> "VM added successfully."]
                              [] r.err \in {"ValueError", "IntegrityError"} ->
                                   \* "except Exception": nothing is undone
                                   /\ vms' = created
                                   /\ vm_tags' = r.vm_tags
                                   /\ resp' = [status |-> "error", error_code |-> 101,
                                               message |-> r.err]
                              [] OTHER ->
                                   \* "except ValidationError": vm_instance.delete()
                                   /\ vms' = vms
                                   /\ vm_tags' = [p \in {q \in DOMAIN r.vm_tags :
                                                            q[1] # vm_instance.vm_id}
                                                  |-> r.vm_tags[p]]
                                   /\ resp' = [status |-> "error", error_code |-> 103,
                                               message |-> r.err]

\* 'tags' of one entry of the listing: vm_instance.tags.all()
TagList(T, A, vm_id) ==
    {[tag_name |-> t.tag_name, scope |-> t.scope] :
        t \in {x \in T : Rows(A, vm_id, x.tag_id) > 0}}

\* Rows of the queryset for one VM after the chained
\* .filter(tags__scope__regex=scope.strip()) calls: each call joins the
\* through table again, and nothing applies distinct().
RECURSIVE ScopeJoinRows(_, _, _, _)
ScopeJoinRows(scopes, T, A, vm_id) ==
    IF scopes = <<>> THEN 1
    ELSE Cardinality({t \in T : /\ Rows(A, vm_id, t.tag_id) > 0
                                /\ RegexSearch(Strip(Head(scopes)), t.scope)})
         * ScopeJoinRows(Tail(scopes), T, A, vm_id)

\* or_query of VMs.get: tags__tag_name__iexact=tag_name.strip(), OR-ed
NameMatch(tag_names, T, A, vm_id) ==
    \E i \in 1 .. Len(tag_names) : \E t \in T :
        /\ Rows(A, vm_id, t.tag_id) > 0
        /\ Lower(t.tag_name) = Lower(Strip(tag_names[i]))

\* VMs.get; data is the set of entries, each with the number of times it
\* occurs in the list.
ListVMs(vm_id, tag_names, scopes) ==
    /\ UNCHANGED calls
    /\ req' = [op |-> "listVMs", vm_id |-> vm_id, tag_name |-> tag_names,
               scopes |-> scopes]
    /\ UNCHANGED <<tags, vms, vm_tags>>
    /\ IF vm_id # NoId
       THEN IF \E v \in vms : v.vm_id = vm_id
            THEN LET vm_instance == CHOOSE v \in vms : v.vm_id = vm_id
                 IN  resp' = [status |-> "success", error_code |-> 0,
                              message |-> "VMs retrieved successfully",
                              data |-> {[vm_id |-> vm_id,
                                         vm_name |-> vm_instance.vm_name,
                                         tags |-> TagList(tags, vm_tags, vm_id),
                                         copies |-> 1]}]
            ELSE resp' = [status |-> "error", error_code |-> 101,
                          message |-> "Error: No VM matches the given query."]
       ELSE LET byName == {v \in vms : tag_names = <<>>
                                       \/ NameMatch(tag_names, tags, vm_tags, v.vm_id)}
                queryset == {v \in byName :
                                ScopeJoinRows(scopes, tags, vm_tags, v.vm_id) > 0}
            IN  \* the entries are built with the request's vm_id, not the row's
                resp' = [status |-> "success", error_code |-> 0,
                         message |-> "VMs retrieved successfully",
                         data |-> {[vm_id |-> vm_id,
                                    vm_name |-> v.vm_name,
                                    tags |-> TagList(tags, vm_tags, v.vm_id),
                                    copies |-> ScopeJoinRows(scopes, tags, vm_tags, v.vm_id)]
                                   : v \in queryset}]

\* VMs.put: VM has no field "id", so VM.objects.get(id=..) raises FieldError.
UpdateVM(vm_id) ==
    /\ UNCHANGED calls
    /\ req' = [op |-> "updateVM", vm_id |-> vm_id]
    /\ resp' = [status |-> "error", error_code |-> 101,
                message |-> "Error: Cannot resolve keyword 'id' into field."]
    /\ UNCHANGED <<tags, vms, vm_tags>>

\* VMs.delete: VM has no field "id", so VM.objects.get(id=vm_id) raises FieldError.
DeleteVM(vm_id) ==
    /\ UNCHANGED calls
    /\ req' = [op |-> "deleteVM", vm_id |-> vm_id]
    /\ resp' = [status |-> "error", error_code |-> 101,
                message |-> "Error: Cannot resolve keyword 'id' into field."]
    /\ UNCHANGED <<tags, vms, vm_tags>>

\* ---------------------------------------------------------------- concurrent callers
\* Requests served at the same time (one worker each).
Callers == {1, 2}

\* (tag_name, scope, user_id) of the POST /tags requests that overlap
ConcTagInputs == {<<NameE, ScopePQ, 2>>, <<NameE, Empty, 2>>, <<NameE, None, 1>>}

\* (vm_name, tag spec, user_id) of the POST /vms requests that overlap
ConcVmInputs == VmNameInputs \X {SpecEPQ, SpecENoScope} \X {1}

\* A caller with no request in progress.
IdleCall ==
    [pc |-> "idle", view |-> "", result |-> "", vm_id |-> NoId,
     row |-> [tag_name |-> Empty, scope |-> None, user_id |-> 0]]

\* Tags.post up to and including the lookup of TagsModel.save: the request
\* either ends with the ValidationError answer or goes on to the INSERT.
TagsPostLookup(c, tag_name, scope, user_id) ==
    /\ calls[c].pc = "idle"
    /\ user_id \in UserIds
    /\ UNCHANGED <<tags, vms, vm_tags, req, resp>>
    /\ LET s == IF scope = <<>> THEN None ELSE scope
           row == [tag_name |-> tag_name, scope |-> s, user_id |-> user_id]
       IN  IF TagsFilter(tags, tag_name, s) # {}
           THEN calls' = [calls EXCEPT ![c] =
                    [pc |-> "idle", view |-> "Tags.post", vm_id |-> NoId, row |-> row,
                     result |-> "103 This tag already exists."]]
           ELSE calls' = [calls EXCEPT ![c] =
                    [pc |-> "insert", view |-> "Tags.post", vm_id |-> NoId, row |-> row,
                     result |-> ""]]

\* VMs.post for one tag spec, up to and including the lookup of
\* TagsModel.save: the VM row is inserted, a stored (tag_name, scope) is
\* attached, otherwise TagsModel.objects.create starts.
VMsPostLookup(c, vm_name, spec, user_id) ==
    /\ calls[c].pc = "idle"
    /\ user_id \in UserIds
    /\ ~\E v \in vms : v.vm_name = vm_name
    /\ UNCHANGED <<tags, req, resp>>
    /\ LET vm_instance == [vm_id |-> FreshId(VmIds(vms)), vm_name |-> vm_name]
           parts == Split(spec)
           found == TagsFilter(tags, parts[1], parts[2])
           s == IF parts[2] = <<>> THEN None ELSE parts[2]
           row == [tag_name |-> parts[1], scope |-> s, user_id |-> user_id]
       IN  IF found # {}
           THEN /\ vms' = vms \cup {vm_instance}
                /\ vm_tags' = M2MAdd(vm_tags,
                                     {<<vm_instance.vm_id, t.tag_id>> : t \in found})
                /\ calls' = [calls EXCEPT ![c] =
                       [pc |-> "idle", view |-> "VMs.post", vm_id |-> vm_instance.vm_id,
                        row |-> row, result |-> "reused"]]
           ELSE IF TagsFilter(tags, parts[1], s) # {}
           THEN \* ValidationError: vm_instance.delete()
                /\ UNCHANGED <<vms, vm_tags>>
                /\ calls' = [calls EXCEPT ![c] =
                       [pc |-> "idle", view |-> "VMs.post", vm_id |-> NoId,
                        row |-> row, result |-> "103 This tag already exists."]]
           ELSE /\ vms' = vms \cup {vm_instance}
                /\ UNCHANGED vm_tags
                /\ calls' = [calls EXCEPT ![c] =
                       [pc |-> "insert", view |-> "VMs.post", vm_id |-> vm_instance.vm_id,
                        row |-> row, result |-> ""]]

\* super().save() of a request that passed the lookup: the INSERT, then the
\* rest of the view (the answer; in VMs.post also vm_instance.tags.add).
SaveInsert(c) ==
    /\ calls[c].pc = "insert"
    /\ Cardinality(tags) < MaxTags
    /\ UNCHANGED <<vms, req, resp>>
    /\ LET call == calls[c]
           new_id == FreshId(TagIds(tags))
           r == DbInsertTag(tags, [tag_id |-> new_id, tag_name |-> call.row.tag_name,
                                   scope |-> call.row.scope,
                                   user_id |-> call.row.user_id])
       IN  /\ tags' = r.tags
           /\ IF r.err # ""
              THEN \* IntegrityError: 102 in Tags.post, "except Exception" in VMs.post
                   /\ UNCHANGED vm_tags
                   /\ calls' = [calls EXCEPT ![c].pc = "idle",
                                             ![c].result =
                                                 IF call.view = "Tags.post"
                                                 THEN "102 This Tag Already exist"
                                                 ELSE "101 IntegrityError"]
              ELSE /\ vm_tags' = IF call.view = "VMs.post"
                                 THEN M2MAdd(vm_tags, {<<call.vm_id, new_id>>})
                                 ELSE vm_tags
                   /\ calls' = [calls EXCEPT ![c].pc = "idle",
                                             ![c].result = "success"]

Init ==
    /\ calls = [c \in Callers |-> IdleCall]
    /\ tags = {}
    /\ vms = {}
    /\ vm_tags = [p \in {} |-> 0]
    /\ req = [op |-> "none"]
    /\ resp = [status |-> "success", error_code |-> 0, message |-> ""]

Next ==
    \/ \E i \in CreateTagInputs : CreateTag(i[1], i[2], i[3])
    \/ \E i \in DeleteTagInputs : DeleteTag(i[1], i[2])
    \/ \E i \in AssignInputs : AssignUnassign(i[1], i[2], i[3])
    \/ \E n \in VmNameInputs, i \in TagSpecInputs : CreateVM(n, i[1], i[2])
    \/ \E i \in ListVMsInputs : ListVMs(i[1], i[2], i[3])
    \/ \E v \in VmIdInputs : UpdateVM(v)
    \/ \E v \in VmIdInputs : DeleteVM(v)

Spec == Init /\ [][Next]_vars

\* Requests that create tags, served concurrently: any interleaving of the
\* callers' lookups and INSERTs.
NextConc ==
    \/ \E c \in Callers, i \in ConcTagInputs : TagsPostLookup(c, i[1], i[2], i[3])
    \/ \E c \in Callers, i \in ConcVmInputs : VMsPostLookup(c, i[1], i[2], i[3])
    \/ \E c \in Callers : SaveInsert(c)

SpecConc == Init /\ [][NextConc]_vars

\* ================================================================ properties
\* Scope with the empty string counted as null.
NormScope(scope) == IF scope = <<>> THEN None ELSE scope

\* The tag is attached to at least one VM.
Attached(tag_id) == \E v \in vms : Rows(vm_tags, v.vm_id, tag_id) > 0

\* The stored tag with this id.
TagOf(tag_id) == CHOOSE t \in tags : t.tag_id = tag_id

\* Requesters that name a user: the admin "1", and users 2 and 3.
Requesters == {<<"1">>, <<"2">>, <<"3">>}

\* The requester is the admin or the owner of the tag.
MayDelete(user_id, tag_id) ==
    \/ user_id = <<"1">>
    \/ /\ user_id = <<"2">>
       /\ TagOf(tag_id).user_id = 2
    \/ /\ user_id = <<"3">>
       /\ TagOf(tag_id).user_id = 3

\* C1: in every reachable state no two stored tags have the same tag_name and
\* the same normalized scope (the empty string counted as null).
C1_UniqueNameScope ==
    \A t1, t2 \in tags :
        (t1.tag_name = t2.tag_name /\ NormScope(t1.scope) = NormScope(t2.scope))
            => t1 = t2

\* C1 witness: a creation was refused as a duplicate while two tags share a name.
C1_Witness ==
    /\ req.op \in {"createTag", "createVM"}
    /\ resp.message = "This tag already exists."
    /\ \E t1, t2 \in tags : t1 # t2 /\ t1.tag_name = t2.tag_name

\* C2: deleteTag on a tag attached to a VM fails with "tag in use" for every
\* requester and changes nothing; on a tag attached to no VM, deleteTag by
\* the owner or the admin succeeds and the tag is gone.
C2_InUseBlocksDelete ==
    [][(/\ req'.op = "deleteTag"
        /\ req'.tag_id \in TagIds(tags)
        /\ req'.user_id \in Requesters)
       => IF Attached(req'.tag_id)
          THEN /\ resp'.status = "error"
               /\ resp'.message = "Tag is assigned to VMs. Unassign it before deleting."
               /\ tags' = tags /\ vm_tags' = vm_tags /\ vms' = vms
          ELSE MayDelete(req'.user_id, req'.tag_id)
                  => /\ resp'.status = "success"
                     /\ req'.tag_id \notin TagIds(tags')]_vars

\* C2 witness: the owner's deleteTag was refused because the tag is attached.
C2_Witness ==
    /\ req.op = "deleteTag"
    /\ req.user_id = <<"2">>
    /\ resp.message = "Tag is assigned to VMs. Unassign it before deleting."
    /\ \E t \in tags : t.tag_id = req.tag_id /\ t.user_id = 2 /\ Attached(t.tag_id)

\* C3: for an existing tag attached to no VM, deleteTag removes the tag iff
\* the requester is its owner or the admin "1"; any other requester gets the
\* not-authorized answer (code 100, "Invalid Request.") and the tag stays.
C3_DeleteAuthorization ==
    [][(/\ req'.op = "deleteTag"
        /\ req'.tag_id \in TagIds(tags)
        /\ req'.user_id \in Requesters
        /\ ~Attached(req'.tag_id))
       => /\ (TagOf(req'.tag_id) \notin tags') <=> MayDelete(req'.user_id, req'.tag_id)
          /\ ~MayDelete(req'.user_id, req'.tag_id)
                => /\ resp'.status = "error"
                   /\ resp'.error_code = 100
                   /\ resp'.message = "Invalid Request."
                   /\ tags' = tags]_vars

\* C3 witness: user 3 was refused the deletion of an unattached tag of user 2.
C3_Witness ==
    /\ req.op = "deleteTag"
    /\ req.user_id = <<"3">>
    /\ resp.message = "Invalid Request."
    /\ \E t \in tags : t.tag_id = req.tag_id /\ t.user_id = 2 /\ ~Attached(t.tag_id)

\* C4: createTag for a (tag_name, normalized scope) that is already stored
\* answers with error code 102 and leaves the tags unchanged.
C4_DuplicateAnswers102 ==
    [][(/\ req'.op = "createTag"
        /\ req'.user_id \in UserIds
        /\ \E t \in tags : /\ t.tag_name = req'.tag_name
                           /\ NormScope(t.scope) = NormScope(req'.scope))
       => /\ resp'.status = "error"
          /\ resp'.error_code = 102
          /\ tags' = tags]_vars

\* C5: no stored tag has the empty string as scope; createTag(name, "") is
\* refused when (name, null) is stored; and createVM with the spec "e:"
\* reuses the stored (e, null) tag: it succeeds, creates no tag and attaches
\* the new VM to that tag.
C5_EmptyScopeIsNull ==
    [][/\ \A t \in tags' : t.scope # <<>>
       /\ (/\ req'.op = "createTag"
           /\ req'.scope = <<>>
           /\ req'.user_id \in UserIds
           /\ \E t \in tags : t.tag_name = req'.tag_name /\ t.scope = None)
          => (resp'.status = "error" /\ tags' = tags)
       /\ (/\ req'.op = "createVM"
           /\ req'.tags = <<SpecENoScope>>
           /\ req'.user_id \in UserIds
           /\ ~\E v \in vms : v.vm_name = req'.vm_name
           /\ \E t \in tags : t.tag_name = NameE /\ t.scope = None)
          => /\ resp'.status = "success"
             /\ tags' = tags
             /\ \E v \in vms' \ vms : \E t \in tags :
                    /\ t.tag_name = NameE /\ t.scope = None
                    /\ Rows(vm_tags', v.vm_id, t.tag_id) = 1]_vars

\* C6: for every existing tag and existing VM, an assign repeated with the
\* same tag_name and vm_ids leaves the state of the first assign and exactly
\* one association for each pair; an unassign of pairs that are not
\* associated succeeds and leaves the associations unchanged.
C6_AssignIdempotentEveryTag ==
    [][/\ (/\ req.op = "assign"
           /\ req'.op = "assign"
           /\ req'.tag_name = req.tag_name
           /\ req'.vm_ids = req.vm_ids
           /\ \E t \in tags : t.tag_name = req'.tag_name
           /\ req'.vm_ids \subseteq VmIds(vms))
          => /\ tags' = tags /\ vms' = vms /\ vm_tags' = vm_tags
             /\ \A t \in tags, v \in req'.vm_ids :
                    t.tag_name = req'.tag_name => Rows(vm_tags', v, t.tag_id) = 1
       /\ (/\ req'.op = "unassign"
           /\ \E t \in tags : t.tag_name = req'.tag_name
           /\ req'.vm_ids \subseteq VmIds(vms)
           /\ \A t \in tags, v \in req'.vm_ids :
                  t.tag_name = req'.tag_name => Rows(vm_tags, v, t.tag_id) = 0)
          => /\ resp'.status = "success"
             /\ vm_tags' = vm_tags]_vars

\* C7: assign and unassign with a tag_name that no tag has answer with the
\* not-found error and leave associations, tags and VMs unchanged.
C7_UnknownTagNameNotFound ==
    [][(/\ req'.op \in {"assign", "unassign"}
        /\ ~\E t \in tags : t.tag_name = req'.tag_name)
       => /\ resp'.status = "error"
          /\ resp'.message = "error: No TagsModel matches the given query."
          /\ vm_tags' = vm_tags /\ tags' = tags /\ vms' = vms]_vars

\* C7 witness: an assign to existing VMs named a tag that is not stored.
C7_Witness ==
    /\ req.op = "assign"
    /\ req.vm_ids # {} /\ req.vm_ids \subseteq VmIds(vms)
    /\ tags # {}
    /\ ~\E t \in tags : t.tag_name = req.tag_name
    /\ resp.message = "error: No TagsModel matches the given query."

\* C8: a createVM that answers with an error leaves no VM with the requested
\* vm_name that did not exist before the call.
C8_FailedCreateLeavesNoVM ==
    [][(req'.op = "createVM" /\ resp'.status = "error")
       => \A v \in vms' : v.vm_name = req'.vm_name => v \in vms]_vars

\* The (tag_name, scope) of a stored tag.
Key(t) == [tag_name |-> t.tag_name, scope |-> t.scope]

\* The (tag_name, scope) a "name:scope" spec names: the text before its
\* colon and the text after it, the empty scope being null.
SpecKey(spec) ==
    LET i == CHOOSE k \in 1 .. Len(spec) : spec[k] = ":"
    IN  [tag_name |-> SubSeq(spec, 1, i - 1),
         scope |-> NormScope(SubSeq(spec, i + 1, Len(spec)))]

NamedBy(specs) == {SpecKey(specs[i]) : i \in 1 .. Len(specs)}

\* C9: after a successful createVM exactly one VM is added, it is attached
\* to exactly the tags its specs name, stored tags are kept as they were
\* (owner included), each named (name, scope) that was not stored is created
\* once and owned by owner_user_id, and no other tag or association changes.
C9_CreateVMAttachesNamedTags ==
    [][(req'.op = "createVM" /\ resp'.status = "success")
       => \E v \in vms' :
            /\ v \notin vms /\ v.vm_name = req'.vm_name /\ vms' = vms \cup {v}
            /\ tags \subseteq tags'
            /\ \A t \in tags' \ tags :
                   /\ t.user_id = req'.user_id
                   /\ Key(t) \in NamedBy(req'.tags)
                   /\ Key(t) \notin {Key(x) : x \in tags}
            /\ \A k \in NamedBy(req'.tags) :
                   Cardinality({t \in tags' : Key(t) = k}) = 1
            /\ \A t \in tags' :
                   Rows(vm_tags', v.vm_id, t.tag_id)
                       = (IF Key(t) \in NamedBy(req'.tags) THEN 1 ELSE 0)
            /\ \A p \in DOMAIN vm_tags' :
                   /\ p[2] \in TagIds(tags')
                   /\ p[1] # v.vm_id => (p \in DOMAIN vm_tags /\ vm_tags'[p] = vm_tags[p])
            /\ \A p \in DOMAIN vm_tags :
                   p \in DOMAIN vm_tags' /\ vm_tags'[p] = vm_tags[p]]_vars

\* C9 witness: a createVM by user 1 succeeded, reusing a tag of user 2 and
\* creating one tag of its own.
C9_Witness ==
    /\ req.op = "createVM"
    /\ resp.status = "success"
    /\ req.tags = <<SpecEPQ, SpecTP>>
    /\ \E v \in vms, t1, t2 \in tags :
          /\ v.vm_name = req.vm_name
          /\ Key(t1) = [tag_name |-> NameE, scope |-> ScopePQ] /\ t1.user_id = 2
          /\ Key(t2) = [tag_name |-> NameT, scope |-> <<"p">>] /\ t2.user_id = 1
          /\ Rows(vm_tags, v.vm_id, t1.tag_id) = 1
          /\ Rows(vm_tags, v.vm_id, t2.tag_id) = 1

\* The tags attached to a VM, as (tag_name, scope) pairs.
AttachedKeys(vm_id) == {Key(t) : t \in {x \in tags : Rows(vm_tags, vm_id, x.tag_id) > 0}}

\* C10: listVMs without vm_id changes nothing and returns exactly the VMs
\* with an attached tag whose name equals one of the tag_name filters
\* ignoring case (any of them) and, for each scope filter, an attached tag
\* whose scope matches it (all of them); each entry carries the VM's own
\* vm_id, its vm_name and all its tags.
C10_ListVMsReturnsMatchingVMs ==
    [][(req'.op = "listVMs" /\ req'.vm_id = NoId)
       => /\ tags' = tags /\ vms' = vms /\ vm_tags' = vm_tags
          /\ resp'.status = "success"
          /\ {[vm_id |-> e.vm_id, vm_name |-> e.vm_name, tags |-> e.tags] :
                 e \in resp'.data}
             = {[vm_id |-> v.vm_id, vm_name |-> v.vm_name,
                 tags |-> AttachedKeys(v.vm_id)] :
                 v \in {x \in vms :
                     /\ \/ req'.tag_name = <<>>
                        \/ \E i \in 1 .. Len(req'.tag_name) :
                              \E k \in AttachedKeys(x.vm_id) :
                                 Lower(k.tag_name) = Lower(Strip(req'.tag_name[i]))
                     /\ \A j \in 1 .. Len(req'.scopes) :
                           \E k \in AttachedKeys(x.vm_id) :
                              RegexSearch(Strip(req'.scopes[j]), k.scope)}}]_vars

\* C12: deleteVM of an existing VM removes that VM and its associations and
\* nothing else (tags and the associations of other VMs stay); deleteVM of a
\* vm_id that is not stored answers with an error and changes nothing.
C12_DeleteVMRemovesVMOnly ==
    [][(req'.op = "deleteVM")
       => IF req'.vm_id \in VmIds(vms)
          THEN /\ resp'.status = "success"
               /\ vms' = {v \in vms : v.vm_id # req'.vm_id}
               /\ tags' = tags
               /\ vm_tags' = [p \in {q \in DOMAIN vm_tags : q[1] # req'.vm_id}
                              |-> vm_tags[p]]
          ELSE /\ resp'.status = "error"
               /\ vms' = vms /\ tags' = tags /\ vm_tags' = vm_tags]_vars

\* The tags whose associations differ between two through tables.
TagsTouched(A, B) ==
    {p[2] : p \in {q \in DOMAIN A \cup DOMAIN B : Rows(A, q[1], q[2]) # Rows(B, q[1], q[2])}}

\* C13: one assign or unassign call changes the associations of at most one
\* tag, and when two or more stored tags have the given tag_name it answers
\* with an error and leaves every association as it was.
C13_AssignTouchesAtMostOneTag ==
    [][(req'.op \in {"assign", "unassign"})
       => /\ Cardinality(TagsTouched(vm_tags, vm_tags')) <= 1
          /\ tags' = tags /\ vms' = vms
          /\ Cardinality({t \in tags : t.tag_name = req'.tag_name}) >= 2
                => (resp'.status = "error" /\ vm_tags' = vm_tags)]_vars

\* C13 witness: an assign to a stored VM named a tag_name that two stored
\* tags have, and was answered with the error of the ambiguous lookup.
C13_Witness ==
    /\ req.op = "assign"
    /\ req.vm_ids # {} /\ req.vm_ids \subseteq VmIds(vms)
    /\ Cardinality({t \in tags : t.tag_name = req.tag_name}) >= 2
    /\ resp.message = "error: get() returned more than one TagsModel"

\* C11: under any interleaving of concurrent callers the store never holds
\* two tags with the same tag_name and normalized scope (null included), and
\* of two overlapping creations of the same pair at most one succeeds.
C11_ConcurrentCreateUnique ==
    /\ \A t1, t2 \in tags :
           (t1.tag_name = t2.tag_name /\ NormScope(t1.scope) = NormScope(t2.scope))
               => t1 = t2
    /\ \A c1, c2 \in Callers :
           ~(/\ c1 # c2
             /\ calls[c1].result = "success"
             /\ calls[c2].result = "success"
             /\ calls[c1].row.tag_name = calls[c2].row.tag_name
             /\ NormScope(calls[c1].row.scope) = NormScope(calls[c2].row.scope))

====
